---- MODULE Spec2Model ----
(***************************************************************************)
(* A model of update_locations.py: the GEDCOM line tokenizer, the tree     *)
(* builder with its garbage filter, the record merger, the serializer and  *)
(* the orchestrator main().                                                *)
(*                                                                         *)
(* Representation.  A Python str is a sequence of one-character strings,   *)
(* so that split, strip, startswith, int() and " ".join are computed       *)
(* character by character.  A text file is the sequence of its lines       *)
(* (without the line terminator, which strip() removes on reading and      *)
(* "\n".join / write adds on writing).  A node dict is a record with the   *)
(* fields level, tag, value, xref_id, children.  None (xref_id) is the     *)
(* empty sequence: every xref_id the code stores starts with "@", so it is *)
(* never the empty str, and the code only tests its truthiness.  An        *)
(* optional YAML key (period, id of a parent) is a sequence of zero or one *)
(* values.  An object reference (an entry of stack or id_map) is the path  *)
(* of list indexes that leads to the node from all_records.                *)
(***************************************************************************)
EXTENDS Integers, Sequences, FiniteSets, TLC

VARIABLES
    pc,           \* position of the running function
    file,         \* content of GED_FILE: a sequence of lines
    prev_file,    \* content of GED_FILE before the latest write
    pos,          \* index of the next line of file to parse (re-run)
    all_records,  \* parse_gedcom_lines / main: the top-level records
    id_map,       \* parse_gedcom_lines / main: rec_id -> index in all_records
    stack,        \* parse_gedcom_lines: (level, node_ref) pairs
    yaml_data,    \* main: the external items, in dict order
    yi,           \* main: index of the next external item
    created_count,\* main: records created in this run
    run,          \* number of the current run of main
    record,       \* update_record: the record being merged into
    before,       \* update_record: the record as it was before the latest call
    yaml_item,    \* update_record: the external item
    calls         \* update_record: calls made so far on record

vars == <<pc, file, prev_file, pos, all_records, id_map, stack, yaml_data, yi,
          created_count, run, record, before, yaml_item, calls>>

parseVars == <<all_records, id_map, stack>>
mainVars == <<prev_file, pos, yaml_data, yi, created_count, run>>
mergeVars == <<record, before, yaml_item, calls>>

-----------------------------------------------------------------------------
(* Bounds of the model *)

MaxLines == 3
MaxMainLines == 3
MaxChildren == 3
MaxCalls == 2

-----------------------------------------------------------------------------
(* str operations *)

None == <<>>

Digits == <<"0", "1", "2", "3", "4", "5", "6", "7", "8", "9">>

IsDigit(c) == \E i \in 1..10 : Digits[i] = c

DigitVal(c) == (CHOOSE i \in 1..10 : Digits[i] = c) - 1

StartsWith(s, c) == Len(s) > 0 /\ s[1] = c

EndsWith(s, c) == Len(s) > 0 /\ s[Len(s)] = c

RECURSIVE LStrip(_, _)
LStrip(s, c) == IF Len(s) > 0 /\ s[1] = c THEN LStrip(Tail(s), c) ELSE s

RECURSIVE RStrip(_, _)
RStrip(s, c) ==
    IF Len(s) > 0 /\ s[Len(s)] = c THEN RStrip(SubSeq(s, 1, Len(s) - 1), c) ELSE s

\* str.strip(chars) for a single character; str.strip() is StripChar(s, " ")
StripChar(s, c) == RStrip(LStrip(s, c), c)

\* str.split(' ', maxsplit)
RECURSIVE Split(_, _)
Split(s, maxsplit) ==
    IF maxsplit = 0 \/ ~ \E i \in 1..Len(s) : s[i] = " "
    THEN <<s>>
    ELSE LET i == CHOOSE k \in 1..Len(s) :
                      s[k] = " " /\ \A j \in 1..(k - 1) : s[j] # " "
         IN  <<SubSeq(s, 1, i - 1)>> \o Split(SubSeq(s, i + 1, Len(s)), maxsplit - 1)

\* " ".join(parts)
RECURSIVE Join(_)
Join(parts) ==
    IF Len(parts) = 0 THEN <<>>
    ELSE IF Len(parts) = 1 THEN parts[1]
    ELSE parts[1] \o <<" ">> \o Join(Tail(parts))

\* the digits of int(): decimal digits, single underscores between digits
RECURSIVE IsDigitRun(_)
IsDigitRun(s) ==
    /\ Len(s) > 0
    /\ IsDigit(s[1])
    /\ \/ Len(s) = 1
       \/ IsDigitRun(Tail(s))
       \/ Len(s) > 2 /\ s[2] = "_" /\ IsDigitRun(SubSeq(s, 3, Len(s)))

\* whether int(s) returns (it raises ValueError otherwise)
IsInt(s) ==
    IF Len(s) > 0 /\ s[1] \in {"-", "+"} THEN IsDigitRun(Tail(s)) ELSE IsDigitRun(s)

RECURSIVE DigitRunVal(_, _)
DigitRunVal(s, acc) ==
    IF Len(s) = 0 THEN acc
    ELSE IF s[1] = "_" THEN DigitRunVal(Tail(s), acc)
    ELSE DigitRunVal(Tail(s), 10 * acc + DigitVal(s[1]))

\* int(s)
IntVal(s) ==
    IF s[1] = "-" THEN 0 - DigitRunVal(Tail(s), 0)
    ELSE IF s[1] = "+" THEN DigitRunVal(Tail(s), 0)
    ELSE DigitRunVal(s, 0)

RECURSIVE StrNat(_)
StrNat(n) == IF n < 10 THEN <<Digits[n + 1]>> ELSE StrNat(n \div 10) \o <<Digits[(n % 10) + 1]>>

\* str(n)
Str(n) == IF n < 0 THEN <<"-">> \o StrNat(0 - n) ELSE StrNat(n)

-----------------------------------------------------------------------------
(* Tags *)

TAG_LOC == <<"_", "L", "O", "C">>
TAG_UID == <<"_", "U", "I", "D">>
TAG_NAME == <<"N", "A", "M", "E">>
TAG_CHAN == <<"C", "H", "A", "N">>
TAG_ABBR == <<"A", "B", "B", "R">>
TAG_DATE == <<"D", "A", "T", "E">>
TAG_TIME == <<"T", "I", "M", "E">>
TAG_TRLR == <<"T", "R", "L", "R">>

Node(level, tag, value, xref_id, children) ==
    [level |-> level, tag |-> tag, value |-> value, xref_id |-> xref_id,
     children |-> children]

-----------------------------------------------------------------------------
(* parse_gedcom_lines *)

\* Lines 24-54: what one line tokenizes to.  kind is "skip" (continue),
\* "error" (IndexError at parts[1]) or "token".
Tokenize(line) ==
    LET stripped == StripChar(line, " ")
        parts == Split(stripped, 2)
        skip == [kind |-> "skip", level |-> 0, tag |-> <<>>, value |-> <<>>, xref_id |-> None]
    IN  IF Len(stripped) = 0 THEN skip
        ELSE IF ~ IsInt(parts[1]) THEN skip
        ELSE IF Len(parts) > 1 /\ StartsWith(parts[2], "@") /\ EndsWith(parts[2], "@")
        THEN IF Len(parts) > 2
             THEN LET rest_parts == Split(parts[3], 1)
                  IN  [kind |-> "token", level |-> IntVal(parts[1]),
                       tag |-> rest_parts[1],
                       value |-> IF Len(rest_parts) > 1 THEN rest_parts[2] ELSE <<>>,
                       xref_id |-> parts[2]]
             ELSE [kind |-> "token", level |-> IntVal(parts[1]), tag |-> <<>>,
                   value |-> <<>>, xref_id |-> parts[2]]
        ELSE IF Len(parts) = 1
        THEN [skip EXCEPT !.kind = "error"]
        ELSE [kind |-> "token", level |-> IntVal(parts[1]), tag |-> parts[2],
              value |-> IF Len(parts) > 2 THEN parts[3] ELSE <<>>,
              xref_id |-> None]

\* Line 58: the malformed record of a previous failed run
IsGarbage(tok) ==
    /\ tok.level = 0
    /\ tok.tag = TAG_LOC
    /\ StartsWith(tok.value, "@")
    /\ EndsWith(tok.value, "@")
    /\ tok.xref_id = None

\* the node a reference (a path of list indexes from the record list) leads to
RECURSIVE NodeAt(_, _)
NodeAt(nodes, path) ==
    IF Len(path) = 1 THEN nodes[path[1]]
    ELSE NodeAt(nodes[path[1]].children, Tail(path))

\* node_ref['children'].append(node), node_ref given by its path
RECURSIVE AppendAt(_, _, _)
AppendAt(nodes, path, node) ==
    [nodes EXCEPT ![path[1]] =
        IF Len(path) = 1
        THEN [@ EXCEPT !.children = Append(@, node)]
        ELSE [@ EXCEPT !.children = AppendAt(@, Tail(path), node)]]

\* PopStack popping only the strictly deeper entries (> for >=)
RECURSIVE PopStackStrict(_, _)
PopStackStrict(stk, level) ==
    IF Len(stk) > 0 /\ stk[Len(stk)].level > level
    THEN PopStackStrict(SubSeq(stk, 1, Len(stk) - 1), level)
    ELSE stk

\* Lines 76-77: while stack and stack[-1][0] >= level: stack.pop()
RECURSIVE PopStack(_, _)
PopStack(stk, level) ==
    IF Len(stk) > 0 /\ stk[Len(stk)].level >= level
    THEN PopStack(SubSeq(stk, 1, Len(stk) - 1), level)
    ELSE stk

\* id_map[rec_id] = node
SetItem(map, key, val) ==
    [k \in DOMAIN map \cup {key} |-> IF k = key THEN val ELSE map[k]]

EmptyMap == [k \in {} |-> 0]

ParseState(recs, map, stk, failed) ==
    [all_records |-> recs, id_map |-> map, stack |-> stk, failed |-> failed]

InitialParseState == ParseState(<<>>, EmptyMap, <<>>, FALSE)

\* Lines 23-83: one iteration of the loop over lines
ParseLine(ps, line) ==
    LET tok == Tokenize(line)
        node == Node(tok.level, tok.tag, tok.value, tok.xref_id, <<>>)
    IN  IF ps.failed THEN ps
        ELSE IF tok.kind = "error" THEN [ps EXCEPT !.failed = TRUE]
        ELSE IF tok.kind = "skip" THEN ps
        ELSE IF IsGarbage(tok) THEN ps
        ELSE IF tok.level = 0
        THEN LET n == Len(ps.all_records) + 1
             IN  ParseState(Append(ps.all_records, node),
                            IF tok.tag = TAG_LOC /\ tok.xref_id # None
                            THEN SetItem(ps.id_map, StripChar(tok.xref_id, "@"), n)
                            ELSE ps.id_map,
                            <<[level |-> 0, path |-> <<n>>]>>,
                            FALSE)
        ELSE LET stk == PopStack(ps.stack, tok.level)
             IN  IF Len(stk) > 0
                 THEN LET parent == stk[Len(stk)].path
                          k == Len(NodeAt(ps.all_records, parent).children) + 1
                      IN  ParseState(AppendAt(ps.all_records, parent, node),
                                     ps.id_map,
                                     Append(stk, [level |-> tok.level,
                                                  path |-> Append(parent, k)]),
                                     FALSE)
                 ELSE [ps EXCEPT !.stack = stk]

\* Lines 17-85: parse_gedcom_lines(lines)
RECURSIVE ParseFrom(_, _)
ParseFrom(ps, lines) ==
    IF Len(lines) = 0 THEN ps ELSE ParseFrom(ParseLine(ps, lines[1]), Tail(lines))

parse_gedcom_lines(lines) == ParseFrom(InitialParseState, lines)

-----------------------------------------------------------------------------
(* serialize_record *)

RECURSIVE serialize_record(_)
RECURSIVE SerializeAll(_)

\* serialize_record leaving out the cross-reference id
serialize_record_no_xref(rec) ==
    LET parts == <<Str(rec.level)>>
                 \o <<rec.tag>>
                 \o (IF Len(rec.value) > 0 THEN <<rec.value>> ELSE <<>>)
    IN  <<Join(parts)>> \o SerializeAll(rec.children)

\* Lines 209-223: the lines of one record (joined by "\n" in the code)
serialize_record(rec) ==
    LET parts == <<Str(rec.level)>>
                 \o (IF rec.xref_id # None THEN <<rec.xref_id>> ELSE <<>>)
                 \o <<rec.tag>>
                 \o (IF Len(rec.value) > 0 THEN <<rec.value>> ELSE <<>>)
    IN  <<Join(parts)>> \o SerializeAll(rec.children)

\* Lines 268-269 (and 220-221): the records' lines, one after the other
SerializeAll(recs) ==
    IF Len(recs) = 0 THEN <<>>
    ELSE serialize_record(recs[1]) \o SerializeAll(Tail(recs))

-----------------------------------------------------------------------------
(* update_record *)

\* The values generate_uid() may return (stand-ins for 32 hexadecimal digits)
Uids == { <<"A", "1">>, <<"B", "2">> }

\* The instants datetime.now() may return, as strftime formats them:
\* "%d %b %Y" in upper case, and "%H:%M:%S.%f" cut to one decimal
Instants ==
    { [date |-> <<"1", "7", " ", "M", "A", "R", " ", "2", "0", "2", "4">>,
       time |-> <<"0", "9", ":", "0", "5", ":", "0", "1", ".", "5">>],
      [date |-> <<"0", "2", " ", "A", "P", "R", " ", "2", "0", "2", "4">>,
       time |-> <<"2", "3", ":", "5", "9", ":", "5", "9", ".", "0">>] }

\* Lines 114-125
create_chan_node(now) ==
    Node(1, TAG_CHAN, <<>>, None,
         << Node(2, TAG_DATE, now.date, None,
                 << Node(3, TAG_TIME, now.time, None, <<>>) >>) >>)

\* Lines 140-142: the ABBR sub-children of one NAME child, the last one winning
RECURSIVE ScanSubs(_, _, _)
ScanSubs(name_abbrs, name_val, subs) ==
    IF Len(subs) = 0 THEN name_abbrs
    ELSE ScanSubs(IF subs[1].tag = TAG_ABBR
                  THEN SetItem(name_abbrs, name_val, subs[1].value)
                  ELSE name_abbrs,
                  name_val, Tail(subs))

\* Lines 137-149: the loop over record['children'].  existing_chan is a
\* sequence of zero (None) or one node.
RECURSIVE ScanChildren(_, _)
ScanChildren(acc, children) ==
    IF Len(children) = 0 THEN acc
    ELSE LET child == children[1]
             next ==
                IF child.tag = TAG_NAME
                THEN [acc EXCEPT !.name_abbrs = ScanSubs(@, child.value, child.children)]
                ELSE IF child.tag = TAG_UID
                THEN [acc EXCEPT !.preserved_children = Append(@, child),
                                 !.has_uid = TRUE]
                ELSE IF child.tag = TAG_CHAN
                THEN [acc EXCEPT !.existing_chan = <<child>>]
                ELSE IF child.tag \notin {TAG_NAME, TAG_LOC, TAG_CHAN}
                THEN [acc EXCEPT !.preserved_children = Append(@, child)]
                ELSE acc
         IN  ScanChildren(next, Tail(children))

\* Lines 128-135: the locals before the loop
InitialScan ==
    [name_abbrs |-> EmptyMap, preserved_children |-> <<>>, has_uid |-> FALSE,
     existing_chan |-> <<>>]

\* WithUid inserting a fresh _UID whether or not the record has one
WithUidAlways(preserved_children, has_uid, uid) ==
    <<Node(1, TAG_UID, uid, None, <<>>)>> \o preserved_children

\* Lines 151-152
WithUid(preserved_children, has_uid, uid) ==
    IF ~ has_uid
    THEN <<Node(1, TAG_UID, uid, None, <<>>)>> \o preserved_children
    ELSE preserved_children

\* NameNode forgetting the abbreviation of the replaced NAME child
NameNodeNoAbbr(n, name_abbrs) ==
    Node(1, TAG_NAME, n.name, None,
         IF Len(n.period) > 0
         THEN <<Node(2, TAG_DATE, n.period[1], None, <<>>)>>
         ELSE <<>>)

\* Lines 159-165
NameNode(n, name_abbrs) ==
    Node(1, TAG_NAME, n.name, None,
         (IF n.name \in DOMAIN name_abbrs
          THEN <<Node(2, TAG_ABBR, name_abbrs[n.name], None, <<>>)>>
          ELSE <<>>)
         \o (IF Len(n.period) > 0
             THEN <<Node(2, TAG_DATE, n.period[1], None, <<>>)>>
             ELSE <<>>))

\* Lines 157-167.  A yaml_item without the key 'names' has names = <<>>.
RECURSIVE NewNames(_, _)
NewNames(names, name_abbrs) ==
    IF Len(names) = 0 THEN <<>>
    ELSE <<NameNode(names[1], name_abbrs)>> \o NewNames(Tail(names), name_abbrs)

\* Lines 172-178: p.get('id') is a sequence of zero (None) or one str
ParentNodes(p) ==
    IF Len(p.id) > 0 /\ Len(p.id[1]) > 0
    THEN <<Node(1, TAG_LOC, <<"@">> \o p.id[1] \o <<"@">>, None,
                IF Len(p.period) > 0
                THEN <<Node(2, TAG_DATE, p.period[1], None, <<>>)>>
                ELSE <<>>)>>
    ELSE <<>>

\* Lines 170-178.  A yaml_item without the key 'parents' has parents = <<>>.
RECURSIVE NewParents(_)
NewParents(parents) ==
    IF Len(parents) = 0 THEN <<>>
    ELSE ParentNodes(parents[1]) \o NewParents(Tail(parents))

\* ChosenChan stamping a new CHAN on every merge
ChosenChanFresh(existing_chan, now) == create_chan_node(now)

\* Lines 187-190
ChosenChan(existing_chan, now) ==
    IF Len(existing_chan) > 0 THEN existing_chan[1] ELSE create_chan_node(now)

IsUid(c) == c.tag = TAG_UID

IsNotUid(c) == c.tag # TAG_UID

\* Reassemble putting the CHAN node after the preserved children
ReassembleChanLate(preserved_children, chan, new_children) ==
    SelectSeq(preserved_children, IsUid)
    \o SelectSeq(preserved_children, IsNotUid)
    \o <<chan>>
    \o new_children

\* Lines 181-193
Reassemble(preserved_children, chan, new_children) ==
    SelectSeq(preserved_children, IsUid)
    \o <<chan>>
    \o SelectSeq(preserved_children, IsNotUid)
    \o new_children

\* Lines 127-195: record after update_record(record, yaml_item), when
\* generate_uid() would return uid and datetime.now() would return now
update_record(rec, item, uid, now) ==
    LET scan == ScanChildren(InitialScan, rec.children)
        preserved_children == WithUid(scan.preserved_children, scan.has_uid, uid)
        new_children == NewNames(item.names, scan.name_abbrs) \o NewParents(item.parents)
    IN  [rec EXCEPT !.children =
            Reassemble(preserved_children, ChosenChan(scan.existing_chan, now),
                       new_children)]

\* Lines 197-207
create_new_record(rec_id, item, uid, now) ==
    update_record(Node(0, TAG_LOC, <<>>, <<"@">> \o rec_id \o <<"@">>, <<>>),
                  item, uid, now)

-----------------------------------------------------------------------------
(* main *)

\* Lines 241-249: the body of the loop over yaml_data.items()
MergeItem(recs, map, item, uid, now) ==
    IF item.id \in DOMAIN map
    THEN [all_records |-> [recs EXCEPT ![map[item.id]] = update_record(@, item, uid, now)],
          id_map |-> map,
          created |-> 0]
    ELSE [all_records |-> Append(recs, create_new_record(item.id, item, uid, now)),
          id_map |-> SetItem(map, item.id, Len(recs) + 1),
          created |-> 1]

SyntheticTrailer == Node(0, TAG_TRLR, <<>>, None, <<>>)

RemoveAt(recs, i) == SubSeq(recs, 1, i - 1) \o SubSeq(recs, i + 1, Len(recs))

\* MoveTrlr appending a new trailer whether or not the records hold one
MoveTrlrAlwaysAppend(recs) == Append(recs, SyntheticTrailer)

\* MoveTrlr relocating the last TRLR record instead of the first
MoveTrlrLast(recs) ==
    LET found == {i \in 1..Len(recs) : recs[i].tag = TAG_TRLR}
    IN  IF found # {}
        THEN LET trlr_index == CHOOSE i \in found : \A j \in found : i >= j
             IN  Append(RemoveAt(recs, trlr_index), recs[trlr_index])
        ELSE Append(recs, SyntheticTrailer)

\* Lines 251-262: move TRLR to the end
MoveTrlr(recs) ==
    LET found == {i \in 1..Len(recs) : recs[i].tag = TAG_TRLR}
    IN  IF found # {}
        THEN LET trlr_index == CHOOSE i \in found : \A j \in found : i <= j
             IN  Append(RemoveAt(recs, trlr_index), recs[trlr_index])
        ELSE Append(recs, SyntheticTrailer)

-----------------------------------------------------------------------------
(* The input lines of the parser's specification *)

ParseInputLines ==
    { <<"0", " ", "H">>,
      <<"0", " ", "@", "A", "@", " ", "_", "L", "O", "C">>,
      <<"0", " ", "_", "L", "O", "C", " ", "@", "A", "@">>,
      <<"1", " ", "N", " ", "x", " ", "y">>,
      <<"2", " ", "D">>,
      <<"3", " ", "T">>,
      <<" ", "1", " ", "N", " ">>,
      <<"0", "1", " ", "N">>,
      <<"0", " ", "@", "B", "@">>,
      <<"-", "1", " ", "Z">>,
      <<"x", " ", "y">>,
      <<>>,
      <<"0">> }

InitCommon ==
    /\ file = <<>>
    /\ prev_file = <<>>
    /\ pos = 1
    /\ all_records = <<>>
    /\ id_map = EmptyMap
    /\ stack = <<>>
    /\ yaml_data = <<>>
    /\ yi = 1
    /\ created_count = 0
    /\ run = 1
    /\ record = Node(0, TAG_LOC, <<>>, None, <<>>)
    /\ before = Node(0, TAG_LOC, <<>>, None, <<>>)
    /\ yaml_item = [id |-> <<>>, names |-> <<>>, parents |-> <<>>]
    /\ calls = 0

InitParse == InitCommon /\ pc = "parse"

\* parse_gedcom_lines reads the next line of an arbitrary input text
ReadLine(lines, max) ==
    /\ pc = "parse"
    /\ Len(file) < max
    /\ \E line \in lines :
          LET ps == ParseLine(ParseState(all_records, id_map, stack, FALSE), line)
          IN  /\ file' = Append(file, line)
              /\ all_records' = ps.all_records
              /\ id_map' = ps.id_map
              /\ stack' = ps.stack
              /\ pc' = IF ps.failed THEN "raised" ELSE "parse"

ParseInputLine ==
    /\ ReadLine(ParseInputLines, MaxLines)
    /\ UNCHANGED <<mainVars, mergeVars>>

NextParse == ParseInputLine

SpecParse == InitParse /\ [][NextParse]_vars

-----------------------------------------------------------------------------
(* The specification of update_record: an arbitrary record, merged with an *)
(* arbitrary external item up to MaxCalls times                            *)

NOTE_NODE ==
    Node(1, <<"N", "O", "T", "E">>, <<"n">>, None,
         <<Node(2, <<"C", "O", "N", "T">>, <<"c">>, None, <<>>)>>)

MAP_NODE == Node(1, <<"M", "A", "P">>, <<>>, None, <<>>)

NameX == <<"x">>

NameY == <<"y", " ", "z">>

PeriodP == <<"1", "9", "0", "0", "-", "1", "9", "5", "0">>

IdA == <<"A">>

IdB == <<"B">>

ChildCatalog ==
    { Node(1, TAG_UID, <<"C", "3">>, None, <<>>),
      create_chan_node([date |-> <<"0", "1", " ", "J", "A", "N", " ", "2", "0", "2", "0">>,
                        time |-> <<"0", "0", ":", "0", "0", ":", "0", "0", ".", "0">>]),
      Node(1, TAG_CHAN, <<>>, None, <<>>),
      Node(1, TAG_NAME, NameX, None, <<Node(2, TAG_ABBR, <<"X">>, None, <<>>)>>),
      Node(1, TAG_NAME, NameX, None, <<Node(2, TAG_ABBR, <<"W">>, None, <<>>)>>),
      Node(1, TAG_LOC, <<"@", "Q", "@">>, None, <<>>),
      NOTE_NODE,
      MAP_NODE }

RECURSIVE SeqsUpTo(_, _)
SeqsUpTo(S, n) ==
    IF n = 0 THEN {<<>>}
    ELSE LET shorter == SeqsUpTo(S, n - 1)
         IN  shorter \cup {Append(q, x) : q \in shorter, x \in S}

MergeItems ==
    { [id |-> IdA, names |-> ns, parents |-> ps] :
        ns \in { <<>>,
                 <<[name |-> NameX, period |-> <<>>]>>,
                 <<[name |-> NameY, period |-> <<PeriodP>>],
                   [name |-> NameX, period |-> <<>>]>> },
        ps \in { <<>>,
                 <<[id |-> <<>>, period |-> <<PeriodP>>],
                   [id |-> <<IdB>>, period |-> <<PeriodP>>],
                   [id |-> << <<>> >>, period |-> <<>>],
                   [id |-> <<IdA>>, period |-> <<>>]>> } }

InitMerge ==
    /\ pc = "update"
    /\ file = <<>>
    /\ prev_file = <<>>
    /\ pos = 1
    /\ all_records = <<>>
    /\ id_map = EmptyMap
    /\ stack = <<>>
    /\ yaml_data = <<>>
    /\ yi = 1
    /\ created_count = 0
    /\ run = 1
    /\ record \in { Node(0, TAG_LOC, <<>>, <<"@", "A", "@">>, children) :
                      children \in SeqsUpTo(ChildCatalog, MaxChildren) }
    /\ before = record
    /\ yaml_item \in MergeItems
    /\ calls = 0

\* update_record(record, yaml_item) is called
UpdateRecord ==
    /\ pc = "update"
    /\ calls < MaxCalls
    /\ \E uid \in Uids, now \in Instants :
          record' = update_record(record, yaml_item, uid, now)
    /\ before' = record
    /\ calls' = calls + 1
    /\ UNCHANGED <<pc, file, parseVars, mainVars, yaml_item>>

NextMerge == UpdateRecord

SpecMerge == InitMerge /\ [][NextMerge]_vars

-----------------------------------------------------------------------------
(* The specification of main: a run over an arbitrary GED_FILE and          *)
(* arbitrary external records, then a second run over the file it wrote     *)
(* with the same external records                                           *)

MainInputLines ==
    { <<"0", " ", "H">>,
      <<"0", " ", "@", "A", "@", " ", "_", "L", "O", "C">>,
      <<"0", " ", "T", "R", "L", "R">>,
      <<"2", " ", "C", "H", "A", "N">>,
      <<"1", " ", "_", "U", "I", "D", " ", "u">>,
      <<"1", " ", "N", "O", "T", "E", " ", "n">>,
      <<"0", " ", "_", "L", "O", "C", " ", "@", "A", "@">> }

ItemA ==
    [id |-> IdA,
     names |-> <<[name |-> NameX, period |-> <<>>]>>,
     parents |-> <<[id |-> <<IdB>>, period |-> <<PeriodP>>]>>]

ItemB == [id |-> IdB, names |-> <<[name |-> NameY, period |-> <<>>]>>, parents |-> <<>>]

\* what load_yaml_data() may return
YamlChoices == { <<>>, <<ItemA>>, <<ItemB, ItemA>> }

InitMain == InitCommon /\ pc = "parse"

\* Lines 227 and 91-94: the first run reads an arbitrary GED_FILE
MainReadLine ==
    /\ run = 1
    /\ ReadLine(MainInputLines, MaxMainLines)
    /\ UNCHANGED <<mainVars, mergeVars>>

\* Lines 227 and 91-94: the second run reads the file the first run wrote
MainReparseLine ==
    /\ pc = "reparse"
    /\ pos <= Len(file)
    /\ LET ps == ParseLine(ParseState(all_records, id_map, stack, FALSE), file[pos])
       IN  /\ all_records' = ps.all_records
           /\ id_map' = ps.id_map
           /\ stack' = ps.stack
           /\ pc' = IF ps.failed THEN "raised" ELSE "reparse"
    /\ pos' = pos + 1
    /\ UNCHANGED <<file, prev_file, yaml_data, yi, created_count, run, mergeVars>>

\* Lines 227-236: parse_gedcom has returned; load_yaml_data()
MainLoadYaml ==
    /\ pc = "parse"
    /\ run = 1
    /\ yaml_data' \in YamlChoices
    /\ pc' = "merge"
    /\ yi' = 1
    /\ created_count' = 0
    /\ UNCHANGED <<file, prev_file, pos, parseVars, run, mergeVars>>

\* Lines 227-236 in the second run, which is given the external records of
\* the first
MainReloadYaml ==
    /\ pc = "reparse"
    /\ pos > Len(file)
    /\ pc' = "merge"
    /\ yi' = 1
    /\ created_count' = 0
    /\ UNCHANGED <<file, prev_file, pos, parseVars, yaml_data, run, mergeVars>>

\* Lines 241-249: one iteration of the loop over the external records
MainMerge ==
    /\ pc = "merge"
    /\ yi <= Len(yaml_data)
    /\ \E uid \in Uids, now \in Instants :
          LET m == MergeItem(all_records, id_map, yaml_data[yi], uid, now)
          IN  /\ all_records' = m.all_records
              /\ id_map' = m.id_map
              /\ created_count' = created_count + m.created
    /\ yi' = yi + 1
    /\ UNCHANGED <<pc, file, prev_file, pos, stack, yaml_data, run, mergeVars>>

\* Lines 251-262
MainMoveTrlr ==
    /\ pc = "merge"
    /\ yi > Len(yaml_data)
    /\ all_records' = MoveTrlr(all_records)
    /\ pc' = "write"
    /\ UNCHANGED <<file, prev_file, pos, id_map, stack, yaml_data, yi, created_count,
                   run, mergeVars>>

\* Lines 267-269: GED_FILE is overwritten
MainWrite ==
    /\ pc = "write"
    /\ prev_file' = file
    /\ file' = SerializeAll(all_records)
    /\ pc' = "done"
    /\ UNCHANGED <<pos, parseVars, yaml_data, yi, created_count, run, mergeVars>>

\* main is run again
MainRerun ==
    /\ pc = "done"
    /\ run = 1
    /\ run' = 2
    /\ pc' = "reparse"
    /\ pos' = 1
    /\ all_records' = <<>>
    /\ id_map' = EmptyMap
    /\ stack' = <<>>
    /\ UNCHANGED <<file, prev_file, yaml_data, yi, created_count, mergeVars>>

NextMain ==
    \/ MainReadLine
    \/ MainLoadYaml
    \/ MainMerge
    \/ MainMoveTrlr
    \/ MainWrite

NextRerun ==
    \/ NextMain
    \/ MainRerun
    \/ MainReparseLine
    \/ MainReloadYaml

\* one run of main
SpecMain == InitMain /\ [][NextMain]_vars

\* a run of main and a second run over what it wrote
SpecRerun == InitMain /\ [][NextRerun]_vars

-----------------------------------------------------------------------------
(* Properties of parse_gedcom_lines and serialize_record (SpecParse) *)

RECURSIVE NodeCount(_)
NodeCount(nodes) ==
    IF Len(nodes) = 0 THEN 0
    ELSE 1 + NodeCount(nodes[1].children) + NodeCount(Tail(nodes))

RECURSIVE Deeper(_)
Deeper(node) ==
    \A i \in 1..Len(node.children) :
        node.children[i].level > node.level /\ Deeper(node.children[i])

IsLevel0Line(line) == Tokenize(line).kind = "token" /\ Tokenize(line).level = 0

IsGarbageLine(line) == Tokenize(line).kind = "token" /\ IsGarbage(Tokenize(line))

IsRecordLine(line) == IsLevel0Line(line) /\ ~ IsGarbageLine(line)

Indexes(lines, P(_)) == SelectSeq([i \in 1..Len(lines) |-> i], LAMBDA i : P(lines[i]))

SetMin(S) == CHOOSE x \in S : \A y \in S : x <= y

SetMax(S) == CHOOSE x \in S : \A y \in S : x >= y

\* The input lines record k was built from, as the claim has it: its level-0
\* line through the line before the next level-0 line.
Block(lines, k) ==
    LET s == Indexes(lines, IsRecordLine)[k]
        later == {i \in (s + 1)..Len(lines) : IsLevel0Line(lines[i])}
    IN  SubSeq(lines, s, IF later = {} THEN Len(lines) ELSE SetMin(later) - 1)

\* The input lines from the level-0 line of record k to the line before the
\* level-0 line of record k + 1, the discarded garbage lines left out.
KeptBlock(lines, k) ==
    LET starts == Indexes(lines, IsRecordLine)
        e == IF k < Len(starts) THEN starts[k + 1] - 1 ELSE Len(lines)
    IN  SelectSeq(SubSeq(lines, starts[k], e), LAMBDA l : ~ IsGarbageLine(l))

\* A line in the written form LEVEL [XREF] TAG [VALUE]: not blank, no
\* whitespace around it, a level in plain decimal digits without a leading
\* zero, a segment after the level and, after a cross-reference id, a tag.
WellFormedLine(line) ==
    /\ Len(line) > 0
    /\ line[1] # " "
    /\ line[Len(line)] # " "
    /\ LET parts == Split(line, 2)
       IN  /\ \A i \in 1..Len(parts[1]) : IsDigit(parts[1][i])
           /\ Len(parts[1]) > 0
           /\ Len(parts[1]) = 1 \/ parts[1][1] # "0"
           /\ Len(parts) >= 2
           /\ (StartsWith(parts[2], "@") /\ EndsWith(parts[2], "@")) => Len(parts) = 3

WellFormed(lines) ==
    /\ \A i \in 1..Len(lines) : WellFormedLine(lines[i])
    /\ Len(lines) > 0 => IsRecordLine(lines[1])

\* C2 (as claimed): for any input text, every parsed top-level record
\* serializes to exactly the block of input lines from its level-0 line
\* through the line before the next level-0 line.
C2_RoundTripAnyText ==
    pc = "parse" =>
        \A k \in 1..Len(all_records) :
            serialize_record(all_records[k]) = Block(file, k)

\* C2 (amended): for input text whose lines are all well formed and whose
\* first line starts a record, every parsed top-level record serializes to
\* exactly the input lines from its level-0 line to the line before the next
\* record's level-0 line, discarded garbage lines left out.
C2_RoundTripWellFormed ==
    (pc = "parse" /\ WellFormed(file)) =>
        /\ Len(all_records) = Len(Indexes(file, IsRecordLine))
        /\ \A k \in 1..Len(all_records) :
               serialize_record(all_records[k]) = KeptBlock(file, k)

C2_Witness ==
    /\ pc = "parse"
    /\ WellFormed(file)
    /\ Len(all_records) = 1
    /\ all_records[1].xref_id # None
    /\ Len(all_records[1].children) = 1
    /\ Len(all_records[1].children[1].children) = 1

\* The input without its garbage records: each garbage level-0 line and the
\* lines after it up to the next level-0 line.
RECURSIVE RemoveGarbageBlocks(_, _)
RemoveGarbageBlocks(lines, in_garbage) ==
    IF Len(lines) = 0 THEN <<>>
    ELSE LET g == IF IsLevel0Line(lines[1]) THEN IsGarbageLine(lines[1]) ELSE in_garbage
         IN  (IF g THEN <<>> ELSE <<lines[1]>>) \o RemoveGarbageBlocks(Tail(lines), g)

\* C9: a garbage level-0 line and the deeper lines that follow it leave no
\* node in the forest and no entry in the identifier index: the parse result
\* is that of the input without its garbage records.
C9_GarbageNeverEnters ==
    pc = "parse" =>
        LET clean == parse_gedcom_lines(RemoveGarbageBlocks(file, FALSE))
        IN  all_records = clean.all_records /\ id_map = clean.id_map

StackIncreasing ==
    \A i \in 1..(Len(stack) - 1) : stack[i].level < stack[i + 1].level

StackOpenChain ==
    /\ \A i \in 1..Len(stack) : NodeAt(all_records, stack[i].path).level = stack[i].level
    /\ \A i \in 1..(Len(stack) - 1) :
           SubSeq(stack[i + 1].path, 1, Len(stack[i + 1].path) - 1) = stack[i].path

ChildrenDeeper == \A i \in 1..Len(all_records) : Deeper(all_records[i])

\* What one non-zero-level token does to the forest and the stack
AttachStep ==
    LET tok == Tokenize(file'[Len(file')])
        open == {j \in 1..Len(stack) : stack[j].level < tok.level}
    IN  (Len(file') = Len(file) + 1 /\ tok.kind = "token" /\ tok.level # 0) =>
            /\ pc' = "parse"
            /\ IF open = {}
               THEN all_records' = all_records /\ stack' = <<>>
               ELSE LET j == SetMax(open)
                        parent == stack[j].path
                        kids == NodeAt(all_records, parent).children
                        node == Node(tok.level, tok.tag, tok.value, tok.xref_id, <<>>)
                    IN  /\ NodeAt(all_records', parent).children = Append(kids, node)
                        /\ NodeAt(all_records', parent).level < tok.level
                        /\ NodeCount(all_records') = NodeCount(all_records) + 1
                        /\ stack' = Append(SubSeq(stack, 1, j),
                                           [level |-> tok.level,
                                            path |-> Append(parent, Len(kids) + 1)])

\* C10: the levels on the stack increase strictly from bottom to top, every
\* child is deeper than its parent, a non-zero-level node is attached to the
\* nearest open ancestor of smaller level, and it is dropped, without an
\* error, exactly when the stack holds no entry of smaller level.
C10_StackInvariant ==
    /\ [](StackIncreasing /\ StackOpenChain /\ ChildrenDeeper)
    /\ [][AttachStep]_vars

C10_Witness ==
    /\ pc = "parse"
    /\ Len(file) = 3
    /\ NodeCount(all_records) = 2
    /\ Len(stack) = 2
    /\ stack[2].level = 3
    /\ Tokenize(file[1]).kind = "token"
    /\ Tokenize(file[1]).level = 2

-----------------------------------------------------------------------------
(* Properties of update_record (SpecMerge) *)

WithTag(children, tag) == SelectSeq(children, LAMBDA c : c.tag = tag)

Foreign(children) ==
    SelectSeq(children, LAMBDA c : c.tag \notin {TAG_NAME, TAG_LOC, TAG_CHAN, TAG_UID})

\* C3: a second update_record with the same external record leaves the
\* children exactly as the first call produced them, _UID and CHAN included.
C3_IdempotentMerge == calls >= 2 => record.children = before.children

C3_Witness ==
    /\ calls = 2
    /\ Len(WithTag(record.children, TAG_UID)) = 2
    /\ Len(WithTag(record.children, TAG_NAME)) = 2
    /\ Len(WithTag(record.children, TAG_LOC)) = 2
    /\ Len(Foreign(record.children)) = 1

\* C5 (as claimed): after update_record the children hold at most one _UID
\* and at most one CHAN, however many there were before.
C5_AtMostOneUidAndChan ==
    calls >= 1 =>
        /\ Len(WithTag(record.children, TAG_UID)) <= 1
        /\ Len(WithTag(record.children, TAG_CHAN)) <= 1

\* C5 (amended): after update_record the children hold at most one CHAN,
\* however many there were before, and every _UID child the record had
\* before, or one _UID child when it had none.
C5_OneChanAllUids ==
    calls >= 1 =>
        /\ Len(WithTag(record.children, TAG_CHAN)) <= 1
        /\ LET uids == WithTag(before.children, TAG_UID)
           IN  IF Len(uids) > 0
               THEN WithTag(record.children, TAG_UID) = uids
               ELSE Len(WithTag(record.children, TAG_UID)) = 1

C5_Witness ==
    /\ calls = 1
    /\ Len(WithTag(before.children, TAG_UID)) = 2
    /\ Len(WithTag(before.children, TAG_CHAN)) = 1
    /\ Len(WithTag(record.children, TAG_UID)) = 2
    /\ Len(WithTag(record.children, TAG_CHAN)) = 1

\* C6: after update_record the children are the _UID node(s), then one CHAN
\* node (the record's own if it had one, else a new one), then the children
\* of other tags as they were and in their order, then the NAME children,
\* then the _LOC children.
C6_FixedOrder ==
    calls >= 1 =>
        LET old == before.children
            new == record.children
            uids == WithTag(old, TAG_UID)
            chans == WithTag(old, TAG_CHAN)
            nu == IF Len(uids) > 0 THEN Len(uids) ELSE 1
        IN  /\ Len(new) >= nu + 1
            /\ IF Len(uids) > 0
               THEN SubSeq(new, 1, nu) = uids
               ELSE \E uid \in Uids : new[1] = Node(1, TAG_UID, uid, None, <<>>)
            /\ IF Len(chans) > 0
               THEN new[nu + 1] = chans[Len(chans)]
               ELSE \E now \in Instants :
                       new[nu + 1] =
                          Node(1, TAG_CHAN, <<>>, None,
                               <<Node(2, TAG_DATE, now.date, None,
                                      <<Node(3, TAG_TIME, now.time, None, <<>>)>>)>>)
            /\ SubSeq(new, nu + 2, Len(new)) =
                  Foreign(old) \o WithTag(new, TAG_NAME) \o WithTag(new, TAG_LOC)

C6_Witness ==
    /\ calls = 1
    /\ before.children = <<NOTE_NODE, Node(1, TAG_LOC, <<"@", "Q", "@">>, None, <<>>), MAP_NODE>>
    /\ Len(record.children) = 8
    /\ record.children[3] = NOTE_NODE
    /\ record.children[4] = MAP_NODE

\* the abbreviation carried over for a name: that of the last ABBR sub-child
\* of the last NAME child of that value that has one
CarriedAbbr(children, name) ==
    LET has == {i \in 1..Len(children) :
                   /\ children[i].tag = TAG_NAME
                   /\ children[i].value = name
                   /\ Len(WithTag(children[i].children, TAG_ABBR)) > 0}
    IN  IF has = {} THEN <<>>
        ELSE LET abbrs == WithTag(children[SetMax(has)].children, TAG_ABBR)
             IN  <<Node(2, TAG_ABBR, abbrs[Len(abbrs)].value, None, <<>>)>>

DateOf(period) ==
    IF Len(period) > 0 THEN <<Node(2, TAG_DATE, period[1], None, <<>>)>> ELSE <<>>

HasId(p) == Len(p.id) > 0 /\ Len(p.id[1]) > 0

\* C7: after update_record the NAME children are one per external name, in
\* order, with the abbreviation of a replaced NAME child of the same text and
\* a DATE for the period; the _LOC children are one per external parent that
\* has an id, valued "@id@", with a DATE for the period; nothing else of the
\* old NAME and _LOC children remains.
C7_NamesAndParentsReplaced ==
    calls >= 1 =>
        LET names == yaml_item.names
            parents == SelectSeq(yaml_item.parents, HasId)
        IN  /\ WithTag(record.children, TAG_NAME) =
                  [i \in 1..Len(names) |->
                      Node(1, TAG_NAME, names[i].name, None,
                           CarriedAbbr(before.children, names[i].name)
                           \o DateOf(names[i].period))]
            /\ WithTag(record.children, TAG_LOC) =
                  [i \in 1..Len(parents) |->
                      Node(1, TAG_LOC, <<"@">> \o parents[i].id[1] \o <<"@">>, None,
                           DateOf(parents[i].period))]

C7_Witness ==
    /\ calls = 1
    /\ Len(yaml_item.names) = 2
    /\ Len(yaml_item.parents) = 4
    /\ Len(WithTag(before.children, TAG_NAME)) = 2
    /\ Len(WithTag(before.children, TAG_LOC)) = 1
    /\ before.children[1].tag = TAG_NAME
    /\ before.children[2].tag = TAG_NAME
    /\ before.children[1].children[1].value = <<"X">>
    /\ before.children[2].children[1].value = <<"W">>
    /\ record.children[4].children[1].value = <<"W">>

-----------------------------------------------------------------------------
(* Properties of main (SpecMain, SpecRerun) *)

Trailers(recs) == {i \in 1..Len(recs) : recs[i].tag = TAG_TRLR}

\* C1 (as claimed): whatever the parsed records, the written sequence holds
\* exactly one TRLR record, and it is the last.
C1_ExactlyOneTrailerLast ==
    pc = "write" =>
        Trailers(all_records) = {Len(all_records)}

\* C1 (amended): the last written record is a TRLR record, and the written
\* sequence holds as many TRLR records as were parsed, or one when none was:
\* exactly one when at most one was parsed.
C1_TrailerLast ==
    pc = "write" =>
        LET parsed == parse_gedcom_lines(file).all_records
            n == Cardinality(Trailers(parsed))
        IN  /\ Len(all_records) > 0
            /\ all_records[Len(all_records)].tag = TAG_TRLR
            /\ Cardinality(Trailers(all_records)) = IF n = 0 THEN 1 ELSE n

C1_Witness ==
    /\ pc = "write"
    /\ Len(file) = 3
    /\ Tokenize(file[1]).tag = TAG_TRLR
    /\ Tokenize(file[2]).tag = TAG_LOC
    /\ Tokenize(file[3]).tag = TAG_UID
    /\ Len(all_records) = 3
    /\ created_count = 1
    /\ Trailers(all_records) = {3}
    /\ all_records[3].children = <<>>

Header(rec) == <<rec.level, rec.tag, rec.value, rec.xref_id>>

\* C8: every parsed top-level record is in the written sequence, the records
\* other than the relocated trailer in their parsed order and the created
\* records after them, and a parsed record that is not the node the index
\* registers for an external id has its subtree unchanged.
C8_NoDeletionNoCollateralChange ==
    pc = "write" =>
        LET parse == parse_gedcom_lines(file)
            P == parse.all_records
            F == all_records
            ids == {yaml_data[i].id : i \in 1..Len(yaml_data)}
            touched == {parse.id_map[k] : k \in DOMAIN parse.id_map \cap ids}
            new_ids == ids \ DOMAIN parse.id_map
            trl == Trailers(P)
            kept == IF trl = {} THEN Len(P) ELSE Len(P) - 1
            Place(j) == IF trl = {} \/ j < SetMin(trl) THEN j
                        ELSE IF j = SetMin(trl) THEN Len(F)
                        ELSE j - 1
        IN  /\ Len(F) = kept + Cardinality(new_ids) + 1
            /\ \A j \in 1..Len(P) :
                  /\ Header(F[Place(j)]) = Header(P[j])
                  /\ j \notin touched => F[Place(j)] = P[j]
            /\ \A i \in (kept + 1)..(Len(F) - 1) :
                  /\ F[i].level = 0
                  /\ F[i].tag = TAG_LOC
                  /\ \E id \in new_ids : F[i].xref_id = <<"@">> \o id \o <<"@">>
            /\ trl = {} => F[Len(F)] = Node(0, TAG_TRLR, <<>>, None, <<>>)

C8_Witness ==
    /\ pc = "write"
    /\ Len(file) = 3
    /\ Tokenize(file[1]).tag = TAG_TRLR
    /\ Tokenize(file[2]).tag = TAG_LOC
    /\ ~ IsGarbageLine(file[2])
    /\ Tokenize(file[3]).tag = <<"H">>
    /\ Len(yaml_data) = 2
    /\ created_count = 1
    /\ Len(all_records) = 4
    /\ all_records[2].tag = <<"H">>
    /\ Len(all_records[1].children) = 4

IsLocation(rec) == rec.level = 0 /\ rec.tag = TAG_LOC /\ rec.xref_id # None

Merged(children) ==
    SelectSeq(children, LAMBDA c : c.tag \in {TAG_UID, TAG_CHAN, TAG_NAME, TAG_LOC})

\* C4: a second run of main over the file the first run wrote, with the same
\* external records, creates no top-level record, and every location record
\* of the file has the same _UID, CHAN, NAME and _LOC children after the
\* second run as after the first.
C4_IdempotentRerun ==
    (pc = "done" /\ run = 2) =>
        LET first == SelectSeq(parse_gedcom_lines(prev_file).all_records, IsLocation)
            second == SelectSeq(parse_gedcom_lines(file).all_records, IsLocation)
        IN  /\ created_count = 0
            /\ Len(second) = Len(first)
            /\ \A i \in 1..Len(first) :
                  /\ Header(second[i]) = Header(first[i])
                  /\ Merged(second[i].children) = Merged(first[i].children)

====
